---- MODULE Spec2Model ----
(***************************************************************************)
(* The timed interview session of ResumeInterviewPage (src/unnamed/        *)
(* part_004) inside App (src/unnamed/part_002), with the proctoring signal *)
(* source of src/components/ProctoringView.tsx.                            *)
(*                                                                         *)
(* React state is modelled as it behaves: a setState call made from a      *)
(* timer, a speech-recognition callback, a promise continuation or an      *)
(* effect is queued in `pending` and becomes visible only at the next      *)
(* Commit (render + effects).  A callback reads state variables through    *)
(* the closure of the last committed render, and refs (latestTranscript,   *)
(* isTerminatedRef) directly.  Updates made inside a React click handler   *)
(* are flushed synchronously, so those actions include their commit.       *)
(***************************************************************************)
EXTENDS Integers, Sequences, FiniteSets, TLC

\* ---- bounds of the model ----
MaxQuestions == 2        \* longest generated question list
MaxEvents == 3           \* capture results, capture errors, subject-absent
                         \* signals and media failures delivered to the
                         \* session, in total
MaxLiveEvents == 1       \* the same, in the runs checked for progress
MaxMcq == 2              \* longest generated multiple-choice test
MaxHeard == 3            \* result events of the capture engine followed in the
                         \* model of the transcript
MaxSeconds == 37         \* seconds of an interview followed on the clock of
                         \* the face checks

\* ---- program constants ----
ThinkingSeconds == 10
RecordingSeconds == 30
WarmupDelay == 10       \* seconds before the first face check is scheduled
MinInterval == 15       \* seconds from scheduling a face check to its firing,
MaxInterval == 25       \* at least and at most

VARIABLES
  view, terminationMessage, appPending,
  resumeFile, error, questions, currentQuestionIndex, interviewState,
  interviewPhase, timer, allAnswers, isAdvancing, recognitionError,
  faceDetectionWarnings, interviewResults, performanceSummary,
  proctoringStatus,
  latestTranscript, isTerminatedRef,
  pending,
  recState, recHandlers, events,
  countdown, faceEnabled,
  genInFlight, evalInFlight, evalBatch, sumInFlight, sumRequest,
  advanceLog, lastAdvance, faceSignals,
  mcq, proctoringView, capture

appVars == <<view, terminationMessage, appPending>>
stateVars == <<resumeFile, error, questions, currentQuestionIndex,
               interviewState, interviewPhase, timer, allAnswers, isAdvancing,
               recognitionError, faceDetectionWarnings, interviewResults,
               performanceSummary, proctoringStatus>>
envVars == <<latestTranscript, isTerminatedRef, pending, recState,
             recHandlers, events, countdown, faceEnabled, genInFlight,
             evalInFlight, evalBatch, sumInFlight, sumRequest, advanceLog, lastAdvance,
             faceSignals>>
vars == <<appVars, stateVars, envVars, mcq, proctoringView, capture>>

\* ---- values ----
None == <<>>
Some(v) == <<v>>

Placeholder == "Could not generate questions due to an API error. Please try again later."
DefaultGenError == "AI could not generate questions from this resume."
UnexpectedError == "An unexpected error occurred."
TerminationText == "Interview terminated due to repeated face detection issues."

QuestionText == <<"q1", "q2", "q3", "q4", "q5">>
QuestionList(n) == [i \in 1..n |-> QuestionText[i]]

\* what the model call of the generation request can come back with: a
\* thrown error, text that is not JSON, JSON that is no array, or an array of
\* n questions
GenReplies ==
  {[kind |-> k, n |-> 0] : k \in {"error", "malformed", "notArray"}}
    \cup {[kind |-> "array", n |-> n] : n \in 0..MaxQuestions}

\* the value generateQuestionsFromResume resolves to: the parsed array, the
\* empty list for JSON of another shape, a one-element list holding an error
\* placeholder when the call or the parse throws
generateQuestionsFromResume(reply) ==
  IF reply.kind = "array" THEN QuestionList(reply.n)
  ELSE IF reply.kind = "notArray" THEN <<>>
  ELSE <<Placeholder>>

\* what generateQuestionsFromResume can hand back: a list of questions, the
\* empty list, or a one-element list holding an error placeholder
GenResults == {generateQuestionsFromResume(reply) : reply \in GenReplies}

IncludesCouldNot(q) == q = Placeholder

\* the reasons the engine reports in this model: one with a message of its
\* own and one that falls through to the default message
ErrorCodes == {"no-speech", "network"}

ErrorMessage(code) ==
  IF code = "no-speech"
    THEN "We didn't hear you. Please ensure your microphone is working and speak clearly."
  ELSE IF code = "not-allowed" \/ code = "service-not-allowed"
    THEN "Microphone access was denied. Please check your browser permissions."
  ELSE IF code = "audio-capture"
    THEN "There was a problem with your microphone. Please check your hardware."
  ELSE "An unknown microphone error occurred."

\* text is a sequence of characters; "w" stands for any non-blank character
Fragments == {<<>>, <<"w">>}

RECURSIVE TrimLeft(_)
TrimLeft(s) == IF s # <<>> /\ Head(s) = " " THEN TrimLeft(Tail(s)) ELSE s

RECURSIVE TrimRight(_)
TrimRight(s) ==
  IF s # <<>> /\ s[Len(s)] = " " THEN TrimRight(SubSeq(s, 1, Len(s) - 1)) ELSE s

Trim(s) == TrimRight(TrimLeft(s))

Undefined == <<"undefined">>

\* ---- evaluateAnswer (geminiService) ----
NoAnswer == <<"[No answer recorded]">>
EvalFallback == "An error occurred while evaluating the answer. Please try again."

\* what the model call of one evaluation request can come back with: a
\* thrown error, JSON of the wrong shape, or feedback with a score
Replies == {"error", "malformed", "scored"}

\* the same and, for the evaluation followed on its own, feedback with a
\* score that is a number but not one of 1 to 5 (the response schema asks for
\* a number, the prompt for 1 to 5)
ScoredReplies == Replies \cup {"overscored"}

\* the value evaluateAnswer resolves to: the parsed object when feedback is
\* a string and score is a number, the fallback otherwise
evaluateAnswer(reply) ==
  IF reply = "scored" THEN [feedback |-> "feedback", score |-> 4]
  ELSE IF reply = "overscored" THEN [feedback |-> "feedback", score |-> 7]
  ELSE [feedback |-> EvalFallback, score |-> 0]

\* ---- summarizeInterviewPerformance (geminiService) ----
\* performanceSummary before any summary is stored
Null == [strengths |-> "null", areasForImprovement |-> "null"]

SummaryFallback ==
  [strengths |-> "An error occurred while generating the performance summary.",
   areasForImprovement |-> "Please review the individual feedback for each question."]

\* what the model call of the summary request can come back with: a thrown
\* error, text that is not JSON, a JSON object without areasForImprovement,
\* or an object with both texts
SummaryReplies == {"error", "malformed", "partial", "complete"}

\* the value summarizeInterviewPerformance resolves to: whatever JSON.parse
\* returns, the fallback when the call or the parse throws
summarizeInterviewPerformance(reply) ==
  IF reply = "complete"
    THEN [strengths |-> "strengths", areasForImprovement |-> "improvement"]
  ELSE IF reply = "partial"
    THEN [strengths |-> "strengths", areasForImprovement |-> "undefined"]
  ELSE SummaryFallback

\* allAnswers[i] || "[No answer recorded]" (0-based i)
AnswerOrPlaceholder(answers, i) ==
  IF i >= Len(answers) \/ answers[i + 1] = <<>> \/ answers[i + 1] = Undefined
    THEN NoAnswer
    ELSE answers[i + 1]

\* no evaluation batch in flight
NoBatch == [questions |-> <<>>, answers |-> <<>>, responses |-> <<>>]

\* evaluateAllAnswers up to its await: one request per question, in order
StartBatch(c) ==
  [questions |-> c.questions,
   answers |-> [i \in 1..Len(c.questions) |-> AnswerOrPlaceholder(c.allAnswers, i - 1)],
   responses |-> [i \in 1..Len(c.questions) |-> None]]

\* variant of FinalResults that pairs result i with the response that is
\* i-th from the end
FinalResultsReversed(b) ==
  [i \in 1..Len(b.questions) |->
     [question |-> b.questions[i], answer |-> b.answers[i],
      feedback |-> b.responses[Len(b.questions) + 1 - i][1].feedback,
      score |-> b.responses[Len(b.questions) + 1 - i][1].score]]

\* evaluateAllAnswers after its await: Promise.all hands the values back in
\* the order of the requests
FinalResults(b) ==
  [i \in 1..Len(b.questions) |->
     [question |-> b.questions[i], answer |-> b.answers[i],
      feedback |-> b.responses[i][1].feedback,
      score |-> b.responses[i][1].score]]

\* variant of Fill without the fill: every slot is a hole
FillHoles(n) == [i \in 1..n |-> Undefined]

\* new Array(n).fill('')
Fill(n) == [i \in 1..n |-> <<>>]

\* arr[i] = v on a JavaScript array (0-based i): a write past the end grows
\* the array, the holes reading as undefined
SetAt(arr, i, v) ==
  IF i < Len(arr) THEN [arr EXCEPT ![i + 1] = v]
  ELSE arr \o [k \in 1..(i - Len(arr)) |-> Undefined] \o <<v>>

RECURSIVE ApplyWrites(_, _)
ApplyWrites(arr, ws) ==
  IF ws = <<>> THEN arr
  ELSE ApplyWrites(SetAt(arr, Head(ws).i, Head(ws).v), Tail(ws))

\* ---- the queue of state updates not yet rendered ----
NoPending ==
  [questions |-> None, answers |-> <<>>, indexInc |-> 0,
   interviewState |-> None, interviewPhase |-> None,
   timerSet |-> None, timerDec |-> 0,
   isAdvancing |-> None, recognitionError |-> None, warnings |-> None,
   error |-> None, results |-> None, performanceSummary |-> None,
   proctoringStatus |-> None]

SetTimer(p, v) == [p EXCEPT !.timerSet = Some(v), !.timerDec = 0]

Latest(opt, cur) == IF opt = None THEN cur ELSE opt[1]

\* the state the current render shows, as the closures of that render see it
Committed ==
  [resumeFile |-> resumeFile, error |-> error, questions |-> questions,
   currentQuestionIndex |-> currentQuestionIndex,
   interviewState |-> interviewState, interviewPhase |-> interviewPhase,
   timer |-> timer, allAnswers |-> allAnswers, isAdvancing |-> isAdvancing,
   recognitionError |-> recognitionError,
   faceDetectionWarnings |-> faceDetectionWarnings,
   interviewResults |-> interviewResults,
   performanceSummary |-> performanceSummary,
   proctoringStatus |-> proctoringStatus]

\* the state the next render shows: every queued update applied in order
Applied(c, p) ==
  [resumeFile |-> c.resumeFile,
   error |-> Latest(p.error, c.error),
   questions |-> Latest(p.questions, c.questions),
   currentQuestionIndex |-> c.currentQuestionIndex + p.indexInc,
   interviewState |-> Latest(p.interviewState, c.interviewState),
   interviewPhase |-> Latest(p.interviewPhase, c.interviewPhase),
   timer |-> Latest(p.timerSet, c.timer) - p.timerDec,
   allAnswers |->
     ApplyWrites(IF p.questions = None THEN c.allAnswers
                 ELSE Fill(Len(p.questions[1])), p.answers),
   isAdvancing |-> Latest(p.isAdvancing, c.isAdvancing),
   recognitionError |-> Latest(p.recognitionError, c.recognitionError),
   faceDetectionWarnings |-> Latest(p.warnings, c.faceDetectionWarnings),
   interviewResults |-> Latest(p.results, c.interviewResults),
   performanceSummary |-> Latest(p.performanceSummary, c.performanceSummary),
   proctoringStatus |-> Latest(p.proctoringStatus, c.proctoringStatus)]

\* everything a callback or an effect can change besides rendered state
Env ==
  [pend |-> pending, latestTranscript |-> latestTranscript,
   isTerminatedRef |-> isTerminatedRef, recState |-> recState,
   recHandlers |-> recHandlers,
   countdown |-> countdown, evalInFlight |-> evalInFlight,
   evalBatch |-> evalBatch,
   sumInFlight |-> sumInFlight, sumRequest |-> sumRequest,
   advanceLog |-> advanceLog,
   lastAdvance |-> lastAdvance]

\* recognition.stop(): the engine winds down; events it had in the pipeline
\* may still be delivered afterwards
RecStop(s) == IF s = "active" THEN "stopping" ELSE s


\* ---- ResumeInterviewPage: callbacks and effects ----

\* history kept for the properties: the question of the latest Advance that
\* took effect and the callers that advanced that question
NoAdvance == [index |-> -1, triggers |-> {}]

Logged(last, i, trigger) ==
  IF last.index = i THEN [last EXCEPT !.triggers = @ \cup {trigger}]
  ELSE [index |-> i, triggers |-> {trigger}]

\* variants of handleAdvanceAfterRecording with a plausible slip each
\* (a): the terminated latch is not consulted
AdvanceIgnoringLatch(c, m, trigger) ==
  IF c.isAdvancing THEN m
  ELSE
    LET write == [i |-> c.currentQuestionIndex, v |-> Trim(m.latestTranscript)]
        p1 == [m.pend EXCEPT !.isAdvancing = Some(TRUE),
                             !.answers = Append(@, write)]
        p2 == IF c.currentQuestionIndex < Len(c.questions) - 1
                THEN [p1 EXCEPT !.indexInc = @ + 1]
                ELSE [p1 EXCEPT !.interviewState = Some("evaluating")]
    IN [m EXCEPT !.pend = p2,
                 !.recState = RecStop(@),
                 !.advanceLog = Append(@, c.currentQuestionIndex),
                 !.lastAdvance = Logged(@, c.currentQuestionIndex, trigger)]

\* (b): the answer is written into the slot after the current one
AdvanceWritesNextSlot(c, m, trigger) ==
  IF c.isAdvancing \/ m.isTerminatedRef THEN m
  ELSE
    LET write == [i |-> c.currentQuestionIndex + 1, v |-> Trim(m.latestTranscript)]
        p1 == [m.pend EXCEPT !.isAdvancing = Some(TRUE),
                             !.answers = Append(@, write)]
        p2 == IF c.currentQuestionIndex < Len(c.questions) - 1
                THEN [p1 EXCEPT !.indexInc = @ + 1]
                ELSE [p1 EXCEPT !.interviewState = Some("evaluating")]
    IN [m EXCEPT !.pend = p2,
                 !.recState = RecStop(@),
                 !.advanceLog = Append(@, c.currentQuestionIndex),
                 !.lastAdvance = Logged(@, c.currentQuestionIndex, trigger)]

\* (c): the index updater counts down instead of up
AdvanceDecrements(c, m, trigger) ==
  IF c.isAdvancing \/ m.isTerminatedRef THEN m
  ELSE
    LET write == [i |-> c.currentQuestionIndex, v |-> Trim(m.latestTranscript)]
        p1 == [m.pend EXCEPT !.isAdvancing = Some(TRUE),
                             !.answers = Append(@, write)]
        p2 == IF c.currentQuestionIndex < Len(c.questions) - 1
                THEN [p1 EXCEPT !.indexInc = @ - 1]
                ELSE [p1 EXCEPT !.interviewState = Some("evaluating")]
    IN [m EXCEPT !.pend = p2,
                 !.recState = RecStop(@),
                 !.advanceLog = Append(@, c.currentQuestionIndex),
                 !.lastAdvance = Logged(@, c.currentQuestionIndex, trigger)]

\* (d): the transcript is not read; the answer committed is always empty
AdvanceDropsTranscript(c, m, trigger) ==
  IF c.isAdvancing \/ m.isTerminatedRef THEN m
  ELSE
    LET write == [i |-> c.currentQuestionIndex, v |-> <<>>]
        p1 == [m.pend EXCEPT !.isAdvancing = Some(TRUE),
                             !.answers = Append(@, write)]
        p2 == IF c.currentQuestionIndex < Len(c.questions) - 1
                THEN [p1 EXCEPT !.indexInc = @ + 1]
                ELSE [p1 EXCEPT !.interviewState = Some("evaluating")]
    IN [m EXCEPT !.pend = p2,
                 !.recState = RecStop(@),
                 !.advanceLog = Append(@, c.currentQuestionIndex),
                 !.lastAdvance = Logged(@, c.currentQuestionIndex, trigger)]

\* (e): the last question is taken to be the one before the last
AdvanceEvaluatesEarly(c, m, trigger) ==
  IF c.isAdvancing \/ m.isTerminatedRef THEN m
  ELSE
    LET write == [i |-> c.currentQuestionIndex, v |-> Trim(m.latestTranscript)]
        p1 == [m.pend EXCEPT !.isAdvancing = Some(TRUE),
                             !.answers = Append(@, write)]
        p2 == IF c.currentQuestionIndex < Len(c.questions) - 2
                THEN [p1 EXCEPT !.indexInc = @ + 1]
                ELSE [p1 EXCEPT !.interviewState = Some("evaluating")]
    IN [m EXCEPT !.pend = p2,
                 !.recState = RecStop(@),
                 !.advanceLog = Append(@, c.currentQuestionIndex),
                 !.lastAdvance = Logged(@, c.currentQuestionIndex, trigger)]

\* handleAdvanceAfterRecording, called through the closure c of a render;
\* trigger names the caller and is only recorded in lastAdvance
handleAdvanceAfterRecording(c, m, trigger) ==
  IF c.isAdvancing \/ m.isTerminatedRef THEN m
  ELSE
    LET write == [i |-> c.currentQuestionIndex, v |-> Trim(m.latestTranscript)]
        p1 == [m.pend EXCEPT !.isAdvancing = Some(TRUE),
                             !.answers = Append(@, write)]
        p2 == IF c.currentQuestionIndex < Len(c.questions) - 1
                THEN [p1 EXCEPT !.indexInc = @ + 1]
                ELSE [p1 EXCEPT !.interviewState = Some("evaluating")]
    IN [m EXCEPT !.pend = p2,
                 !.recState = RecStop(@),
                 !.advanceLog = Append(@, c.currentQuestionIndex),
                 !.lastAdvance = Logged(@, c.currentQuestionIndex, trigger)]

\* the identity of handleAdvanceAfterRecording changes with its dependencies
AdvanceDeps(c) == <<c.isAdvancing, c.currentQuestionIndex, Len(c.questions)>>

\* effect: a new question resets the sub-phase, the timer, the transcript
\* and the lock
ResetEffect(old, new, m) ==
  IF <<old.interviewState, old.currentQuestionIndex, Len(old.questions)>>
       = <<new.interviewState, new.currentQuestionIndex, Len(new.questions)>>
    THEN m
  ELSE IF new.interviewState = "inProgress"
          /\ new.currentQuestionIndex < Len(new.questions)
    THEN [m EXCEPT
            !.pend = [SetTimer(@, ThinkingSeconds) EXCEPT
                        !.interviewPhase = Some("thinking"),
                        !.isAdvancing = Some(FALSE),
                        !.recognitionError = Some("null")],
            !.latestTranscript = <<>>]
  ELSE m

\* effect: (re)attach the recognition handlers; its cleanup detaches them
\* and stops the engine
RecognitionEffect(old, new, m) ==
  IF AdvanceDeps(old) = AdvanceDeps(new) THEN m
  ELSE [m EXCEPT !.recState = RecStop(@),
                 !.recHandlers = ~m.isTerminatedRef]

\* the scheduled one-second timeouts of the countdown, oldest first; each
\* carries the phase, sub-phase and question of the render that scheduled it
TickFor(c) ==
  [interviewState |-> c.interviewState, interviewPhase |-> c.interviewPhase,
   index |-> c.currentQuestionIndex]

RemoveAt(ts, k) == SubSeq(ts, 1, k - 1) \o SubSeq(ts, k + 1, Len(ts))

\* clearTimeout(countdown) in the cleanup of the run of the timer effect
\* that rendered c: that run's timeout is removed if it has not fired
ClearTimeout(ts, c) ==
  IF \E k \in 1..Len(ts) : ts[k] = TickFor(c)
    THEN RemoveAt(ts, CHOOSE k \in 1..Len(ts) : ts[k] = TickFor(c))
    ELSE ts

\* variant of TimerEffect whose cleanup does not clear the timeout
TimerEffectNoCleanup(old, new, m) ==
  IF <<old.timer, old.interviewPhase, old.interviewState, AdvanceDeps(old)>>
       = <<new.timer, new.interviewPhase, new.interviewState, AdvanceDeps(new)>>
    THEN m
  ELSE
    IF new.interviewState # "inProgress" \/ m.isTerminatedRef THEN m
    ELSE IF new.timer > 0
      THEN [m EXCEPT !.countdown = Append(@, TickFor(new))]
    ELSE IF new.interviewPhase = "thinking"
      THEN [m EXCEPT
              !.pend = [SetTimer(@, RecordingSeconds) EXCEPT
                          !.interviewPhase = Some("recording")],
              !.recState = "active"]
    ELSE IF new.interviewPhase = "recording"
      THEN handleAdvanceAfterRecording(new, m, "timer")
    ELSE m

\* variant of TimerEffect that enters Recording without starting the engine
TimerEffectNoStart(old, new, m) ==
  IF <<old.timer, old.interviewPhase, old.interviewState, AdvanceDeps(old)>>
       = <<new.timer, new.interviewPhase, new.interviewState, AdvanceDeps(new)>>
    THEN m
  ELSE
    LET m1 == [m EXCEPT !.countdown = ClearTimeout(@, old)]
    IN IF new.interviewState # "inProgress" \/ m.isTerminatedRef THEN m1
       ELSE IF new.timer > 0
         THEN [m1 EXCEPT !.countdown = Append(@, TickFor(new))]
       ELSE IF new.interviewPhase = "thinking"
         THEN [m1 EXCEPT
                 !.pend = [SetTimer(@, RecordingSeconds) EXCEPT
                             !.interviewPhase = Some("recording")]]
       ELSE IF new.interviewPhase = "recording"
         THEN handleAdvanceAfterRecording(new, m1, "timer")
       ELSE m1

\* variant of TimerEffect that schedules a timeout at 0 as well
TimerEffectTicksAtZero(old, new, m) ==
  IF <<old.timer, old.interviewPhase, old.interviewState, AdvanceDeps(old)>>
       = <<new.timer, new.interviewPhase, new.interviewState, AdvanceDeps(new)>>
    THEN m
  ELSE
    LET m1 == [m EXCEPT !.countdown = ClearTimeout(@, old)]
    IN IF new.interviewState # "inProgress" \/ m.isTerminatedRef THEN m1
       ELSE [m1 EXCEPT !.countdown = Append(@, TickFor(new))]

\* effect: the countdown
TimerEffect(old, new, m) ==
  IF <<old.timer, old.interviewPhase, old.interviewState, AdvanceDeps(old)>>
       = <<new.timer, new.interviewPhase, new.interviewState, AdvanceDeps(new)>>
    THEN m
  ELSE
    LET m1 == [m EXCEPT !.countdown = ClearTimeout(@, old)]   \* cleanup
    IN IF new.interviewState # "inProgress" \/ m.isTerminatedRef THEN m1
       ELSE IF new.timer > 0
         THEN [m1 EXCEPT !.countdown = Append(@, TickFor(new))]
       ELSE IF new.interviewPhase = "thinking"
         THEN [m1 EXCEPT
                 !.pend = [SetTimer(@, RecordingSeconds) EXCEPT
                             !.interviewPhase = Some("recording")],
                 !.recState = "active"]
       ELSE IF new.interviewPhase = "recording"
         THEN handleAdvanceAfterRecording(new, m1, "timer")
       ELSE m1

\* variant of EvaluationEffect that runs after every render
EvaluationEffectEveryRender(old, new, m) ==
  IF new.interviewState = "evaluating"
    THEN [m EXCEPT !.evalInFlight = @ + 1, !.evalBatch = StartBatch(new)]
  ELSE m

\* effect: batch evaluation, started on entering evaluating
EvaluationEffect(old, new, m) ==
  IF <<old.interviewState, old.questions, old.allAnswers>>
       = <<new.interviewState, new.questions, new.allAnswers>>
    THEN m
  ELSE IF new.interviewState = "evaluating"
    THEN [m EXCEPT !.evalInFlight = @ + 1, !.evalBatch = StartBatch(new)]
  ELSE m

\* variant of SummaryEffect that asks for the summary on entering evaluating
SummaryEffectOnEvaluating(old, new, m) ==
  IF <<old.interviewState, old.interviewResults>>
       = <<new.interviewState, new.interviewResults>> THEN m
  ELSE IF new.interviewState = "evaluating"
    THEN [m EXCEPT !.sumInFlight = @ + 1,
                   !.sumRequest = Some(new.interviewResults)]
  ELSE m

\* effect: the summary, started on entering summarizing
SummaryEffect(old, new, m) ==
  IF <<old.interviewState, old.interviewResults>>
       = <<new.interviewState, new.interviewResults>> THEN m
  ELSE IF new.interviewState = "summarizing"
    THEN [m EXCEPT !.sumInFlight = @ + 1,
                   !.sumRequest = Some(new.interviewResults)]
  ELSE m

\* variant of handleTerminate that stores the message but leaves the view
HandleTerminateKeepsView(message) ==
  Some([view |-> "resume-interview", message |-> message])

\* variant of handleTerminate that never reaches App
HandleTerminateDropped(message) == None

\* variant of handleTerminate that switches the view and stores no message
HandleTerminateNoMessage(message) == Some([view |-> "terminated", message |-> ""])

\* App.handleTerminate: store the message and switch to the terminated view
handleTerminate(message) == Some([view |-> "terminated", message |-> message])

\* ---- plumbing between records and variables ----
SetState(c) ==
  /\ resumeFile' = c.resumeFile
  /\ error' = c.error
  /\ questions' = c.questions
  /\ currentQuestionIndex' = c.currentQuestionIndex
  /\ interviewState' = c.interviewState
  /\ interviewPhase' = c.interviewPhase
  /\ timer' = c.timer
  /\ allAnswers' = c.allAnswers
  /\ isAdvancing' = c.isAdvancing
  /\ recognitionError' = c.recognitionError
  /\ faceDetectionWarnings' = c.faceDetectionWarnings
  /\ interviewResults' = c.interviewResults
  /\ performanceSummary' = c.performanceSummary
  /\ proctoringStatus' = c.proctoringStatus

SetEnv(m) ==
  /\ pending' = m.pend
  /\ latestTranscript' = m.latestTranscript
  /\ isTerminatedRef' = m.isTerminatedRef
  /\ recState' = m.recState
  /\ recHandlers' = m.recHandlers
  /\ countdown' = m.countdown
  /\ evalInFlight' = m.evalInFlight
  /\ evalBatch' = m.evalBatch
  /\ sumInFlight' = m.sumInFlight
  /\ sumRequest' = m.sumRequest
  /\ advanceLog' = m.advanceLog
  /\ lastAdvance' = m.lastAdvance

\* ResumeInterviewPage is rendered exactly in the resume-interview view
Mounted == view = "resume-interview"


\* ---- McqTestPage: state after construction ----
McqStart ==
  [proctoringStatus |-> "pending", selectedSubject |-> None,
   questions |-> <<>>, currentQuestionIndex |-> 0, userAnswers |-> <<>>,
   isLoading |-> FALSE, showResults |-> FALSE, score |-> 0,
   fetching |-> None]

\* ---- ProctoringView: state after construction, on the upload view ----
ViewStart ==
  [mounted |-> TRUE, interviewState |-> "upload", ticking |-> FALSE,
   renderDue |-> FALSE, terminating |-> FALSE,
   enableFaceDetection |-> FALSE, warmup |-> None, check |-> None,
   orphanWarmups |-> {}, orphanCheck |-> FALSE,
   elapsed |-> 0, delivered |-> 0, lateDelivery |-> FALSE]

\* ---- the capture engine: no recognition session yet ----
CaptureStart == [results |-> <<>>, finals |-> <<>>, heard |-> 0]

\* ---- initial state: App shows the resume interview, nothing uploaded ----
Init ==
  /\ view = "resume-interview"
  /\ terminationMessage = ""
  /\ appPending = None
  /\ resumeFile = FALSE
  /\ error = "null"
  /\ questions = <<>>
  /\ currentQuestionIndex = 0
  /\ interviewState = "upload"
  /\ interviewPhase = "idle"
  /\ timer = ThinkingSeconds
  /\ allAnswers = <<>>
  /\ isAdvancing = FALSE
  /\ recognitionError = "null"
  /\ faceDetectionWarnings = 0
  /\ interviewResults = <<>>
  /\ performanceSummary = Null
  /\ proctoringStatus = "pending"
  /\ latestTranscript = <<>>
  /\ isTerminatedRef = FALSE
  /\ pending = NoPending
  /\ recState = "idle"
  /\ recHandlers = TRUE
  /\ events = 0
  /\ countdown = <<>>
  /\ faceEnabled = FALSE
  /\ genInFlight = FALSE
  /\ evalInFlight = 0
  /\ evalBatch = NoBatch
  /\ sumInFlight = 0
  /\ sumRequest = None
  /\ advanceLog = <<>>
  /\ lastAdvance = NoAdvance
  /\ faceSignals = 0
  /\ mcq = McqStart
  /\ proctoringView = ViewStart
  /\ capture = CaptureStart

\* ---- user actions (React event handlers: flushed synchronously) ----

\* the user picks a file of an allowed or of an unsupported type
handleFileChange(allowed) ==
  /\ Mounted /\ proctoringStatus = "ready" /\ interviewState = "upload"
  /\ pending = NoPending /\ appPending = None
  /\ IF allowed
       THEN resumeFile' = TRUE /\ error' = "null"
       ELSE resumeFile' = resumeFile
            /\ error' = "Unsupported file type. Please upload a PDF, DOCX, or TXT file."
  /\ UNCHANGED <<mcq, proctoringView, capture, appVars, questions, currentQuestionIndex, interviewState,
                 interviewPhase, timer, allAnswers, isAdvancing,
                 recognitionError, faceDetectionWarnings, interviewResults,
                 performanceSummary, proctoringStatus, envVars>>

\* the upload view shows the Start Interview button and it is not disabled:
\* disabled={!resumeFile || !!error}
StartOffered ==
  /\ Mounted /\ proctoringStatus = "ready" /\ interviewState = "upload"
  /\ resumeFile /\ error = "null"

\* the Start Interview button
handleStartInterview ==
  /\ StartOffered
  /\ pending = NoPending /\ appPending = None
  /\ interviewState' = "generating"
  /\ genInFlight' = TRUE
  /\ UNCHANGED <<mcq, proctoringView, capture, appVars, resumeFile, error, questions, currentQuestionIndex,
                 interviewPhase, timer, allAnswers, isAdvancing,
                 recognitionError, faceDetectionWarnings, interviewResults,
                 performanceSummary, proctoringStatus, latestTranscript,
                 isTerminatedRef, pending, recState,
                 recHandlers, events, countdown, faceEnabled,
                 evalInFlight, evalBatch, sumInFlight, sumRequest, advanceLog, lastAdvance, faceSignals>>

\* ---- asynchronous continuations ----

\* handleStartInterview after its awaits: the generated list, or a throw
GenerateResolve(thrown, generatedQuestions) ==
  /\ genInFlight
  /\ genInFlight' = FALSE
  /\ pending' =
       IF ~Mounted THEN pending
       ELSE IF thrown
         THEN [pending EXCEPT !.error = Some(UnexpectedError),
                              !.interviewState = Some("upload")]
       ELSE IF Len(generatedQuestions) > 0
               /\ ~IncludesCouldNot(generatedQuestions[1])
         THEN [pending EXCEPT !.questions = Some(generatedQuestions),
                              !.answers = <<>>,
                              !.interviewState = Some("inProgress")]
       ELSE [pending EXCEPT
               !.error = Some(IF Len(generatedQuestions) > 0
                                THEN generatedQuestions[1]
                                ELSE DefaultGenError),
               !.interviewState = Some("upload")]
  /\ UNCHANGED <<mcq, proctoringView, capture, appVars, stateVars, latestTranscript, isTerminatedRef,
                 recState, recHandlers, events, countdown, faceEnabled,
                 evalInFlight, evalBatch, sumInFlight, sumRequest, advanceLog, lastAdvance, faceSignals>>

\* one evaluateAnswer request settles
EvaluateRespond(i, reply) ==
  /\ evalInFlight > 0
  /\ i \in 1..Len(evalBatch.responses)
  /\ evalBatch.responses[i] = None
  /\ evalBatch' = [evalBatch EXCEPT !.responses[i] = Some(evaluateAnswer(reply))]
  /\ UNCHANGED <<mcq, proctoringView, capture, appVars, stateVars, latestTranscript, isTerminatedRef, pending,
                 recState, recHandlers, events, countdown, faceEnabled,
                 genInFlight, evalInFlight, sumInFlight, sumRequest, advanceLog,
                 lastAdvance, faceSignals>>

\* variant of EvaluateResolve whose updates are queued whether or not the
\* page is still there
EvaluateResolveUnmounted ==
  /\ evalInFlight > 0
  /\ \A i \in 1..Len(evalBatch.responses) : evalBatch.responses[i] # None
  /\ evalInFlight' = evalInFlight - 1
  /\ evalBatch' = NoBatch
  /\ pending' = [pending EXCEPT !.results = Some(FinalResults(evalBatch)),
                                !.interviewState = Some("summarizing")]
  /\ UNCHANGED <<mcq, proctoringView, capture, appVars, stateVars, latestTranscript, isTerminatedRef,
                 recState, recHandlers, events, countdown, faceEnabled,
                 genInFlight, sumInFlight, sumRequest, advanceLog, lastAdvance, faceSignals>>

\* evaluateAllAnswers after Promise.all
EvaluateResolve ==
  /\ evalInFlight > 0
  /\ \A i \in 1..Len(evalBatch.responses) : evalBatch.responses[i] # None
  /\ evalInFlight' = evalInFlight - 1
  /\ evalBatch' = NoBatch
  /\ pending' = IF Mounted
                  THEN [pending EXCEPT !.results = Some(FinalResults(evalBatch)),
                                       !.interviewState = Some("summarizing")]
                  ELSE pending
  /\ UNCHANGED <<mcq, proctoringView, capture, appVars, stateVars, latestTranscript, isTerminatedRef,
                 recState, recHandlers, events, countdown, faceEnabled,
                 genInFlight, sumInFlight, sumRequest, advanceLog, lastAdvance, faceSignals>>

\* variant of summarize that sends the session back to Evaluating
SummarizeResolveToEvaluating(reply) ==
  /\ sumInFlight > 0
  /\ sumInFlight' = sumInFlight - 1
  /\ pending' = IF Mounted
                  THEN [pending EXCEPT
                          !.performanceSummary =
                             Some(summarizeInterviewPerformance(reply)),
                          !.interviewState = Some("evaluating")]
                  ELSE pending
  /\ UNCHANGED <<mcq, proctoringView, capture, appVars, stateVars, latestTranscript, isTerminatedRef,
                 recState, recHandlers, events, countdown, faceEnabled,
                 genInFlight, evalInFlight, evalBatch, sumRequest, advanceLog,
                 lastAdvance, faceSignals>>

\* summarize after its await
SummarizeResolve(reply) ==
  /\ sumInFlight > 0
  /\ sumInFlight' = sumInFlight - 1
  /\ pending' = IF Mounted
                  THEN [pending EXCEPT
                          !.performanceSummary =
                             Some(summarizeInterviewPerformance(reply)),
                          !.interviewState = Some("results")]
                  ELSE pending
  /\ UNCHANGED <<mcq, proctoringView, capture, appVars, stateVars, latestTranscript, isTerminatedRef,
                 recState, recHandlers, events, countdown, faceEnabled,
                 genInFlight, evalInFlight, evalBatch, sumRequest, advanceLog,
                 lastAdvance, faceSignals>>

\* ---- timer and capture-engine callbacks ----

\* the one-second timeout of the countdown fires: setTimer(t => t - 1).  A
\* render whose effects queue updates is followed by the render of those
\* updates well within the second, so no timeout fires in between; the only
\* effect that queues setTimer(n) is such a one
Tick ==
  /\ Mounted /\ countdown # <<>>
  /\ pending.timerSet = None
  /\ \E k \in 1..Len(countdown) : countdown' = RemoveAt(countdown, k)
  /\ pending' = [pending EXCEPT !.timerDec = @ + 1]
  /\ UNCHANGED <<mcq, proctoringView, capture, appVars, stateVars, latestTranscript, isTerminatedRef,
                 recState, recHandlers, events, faceEnabled, genInFlight,
                 evalInFlight, evalBatch, sumInFlight, sumRequest, advanceLog, lastAdvance, faceSignals>>

\* rec.onresult: the finalized text of the event (empty when the event
\* carries interim results only) and a blank are appended
RecResult(finalTranscript) ==
  /\ Mounted /\ recHandlers /\ recState \in {"active", "stopping"}
  /\ events < MaxEvents
  /\ events' = events + 1
  /\ latestTranscript' = latestTranscript \o finalTranscript \o <<" ">>
  /\ UNCHANGED <<mcq, proctoringView, capture, appVars, stateVars, isTerminatedRef, pending, recState,
                 recHandlers, countdown, faceEnabled, genInFlight,
                 evalInFlight, evalBatch, sumInFlight, sumRequest, advanceLog, lastAdvance, faceSignals>>

\* rec.onerror: show the message and advance; the engine ends a recognition
\* session in which it reported an error
RecError(code) ==
  /\ Mounted /\ recHandlers /\ recState \in {"active", "stopping"}
  /\ events < MaxEvents
  /\ events' = events + 1
  /\ LET m0 == [Env EXCEPT
                  !.pend = [@ EXCEPT !.recognitionError = Some(ErrorMessage(code))]]
     IN SetEnv([handleAdvanceAfterRecording(Committed, m0, "error")
                   EXCEPT !.recState = "idle"])
  /\ UNCHANGED <<mcq, proctoringView, capture, appVars, stateVars, faceEnabled, genInFlight,
                 faceSignals>>

\* ---- proctoring ----

\* variant of FaceOutOfFrameBranch that terminates on the first signal
FaceBranchNoWarning(c, terminated) ==
  IF terminated \/ c.interviewState # "inProgress" THEN "ignored"
  ELSE IF c.faceDetectionWarnings < 0 THEN "warning"
  ELSE "terminate"

\* variant of FaceOutOfFrameBranch that never reacts
FaceBranchAlwaysIgnored(c, terminated) == "ignored"

\* variant of FaceOutOfFrameBranch that does not consult the latch
FaceBranchIgnoresLatch(c, terminated) ==
  IF c.interviewState # "inProgress" THEN "ignored"
  ELSE IF c.faceDetectionWarnings = 0 THEN "warning"
  ELSE "terminate"

\* the branch handleFaceOutOfFrame takes, from the closure c and the latch
FaceOutOfFrameBranch(c, terminated) ==
  IF terminated \/ c.interviewState # "inProgress" THEN "ignored"
  ELSE IF c.faceDetectionWarnings = 0 THEN "warning"
  ELSE "terminate"

\* ProctoringView's timer calls onFaceOutOfFrame = handleFaceOutOfFrame of
\* the last render
handleFaceOutOfFrame ==
  /\ Mounted /\ faceEnabled
  /\ events < MaxEvents
  /\ events' = events + 1
  /\ faceSignals' = faceSignals + 1
  /\ LET branch == FaceOutOfFrameBranch(Committed, isTerminatedRef)
     IN IF branch = "ignored"
          THEN UNCHANGED <<pending, isTerminatedRef, appPending>>
        ELSE IF branch = "warning"
          THEN /\ pending' = [pending EXCEPT !.warnings = Some(1)]
               /\ UNCHANGED <<isTerminatedRef, appPending>>
        ELSE /\ isTerminatedRef' = TRUE
             /\ appPending' = handleTerminate(TerminationText)
             /\ UNCHANGED pending
  /\ UNCHANGED <<mcq, proctoringView, capture, view, terminationMessage, stateVars, latestTranscript,
                 recState, recHandlers, countdown, faceEnabled,
                 genInFlight, evalInFlight, evalBatch, sumInFlight, sumRequest, advanceLog, lastAdvance>>

\* ProctoringView's getUserMedia resolved while the page waits for the
\* permissions: onReady = () => setProctoringStatus('ready')
MediaReady ==
  /\ Mounted /\ proctoringStatus = "pending"
  /\ pending.proctoringStatus = None
  /\ pending' = [pending EXCEPT !.proctoringStatus = Some("ready")]
  /\ UNCHANGED <<mcq, proctoringView, capture, appVars, stateVars, latestTranscript, isTerminatedRef,
                 recState, recHandlers, events, countdown, faceEnabled,
                 genInFlight, evalInFlight, evalBatch, sumInFlight, sumRequest, advanceLog,
                 lastAdvance, faceSignals>>

\* ProctoringView's getUserMedia was rejected; the view asks for the media
\* again after every render of the page, so this can happen at any time,
\* once per render: onError = setProctoringStatus('error')
MediaError ==
  /\ Mounted /\ proctoringStatus \in {"pending", "ready"}
  /\ pending.proctoringStatus = None
  /\ events < MaxEvents
  /\ events' = events + 1
  /\ pending' = [pending EXCEPT !.proctoringStatus = Some("error")]
  /\ UNCHANGED <<mcq, proctoringView, capture, appVars, stateVars, latestTranscript, isTerminatedRef,
                 recState, recHandlers, countdown, faceEnabled,
                 genInFlight, evalInFlight, evalBatch, sumInFlight, sumRequest, advanceLog,
                 lastAdvance, faceSignals>>

\* ---- React: render, commit and effects ----

\* the page stays mounted: queued updates are applied and the effects whose
\* dependencies changed run in declaration order
Render ==
  LET old == Committed
      new == Applied(old, pending)
      m0 == [Env EXCEPT !.pend = NoPending]
      m1 == ResetEffect(old, new, m0)
      m2 == RecognitionEffect(old, new, m1)
      m3 == TimerEffect(old, new, m2)
      m4 == EvaluationEffect(old, new, m3)
      m5 == SummaryEffect(old, new, m4)
  IN /\ SetState(new)
     /\ SetEnv(m5)
     /\ faceEnabled' = (new.proctoringStatus = "ready"
                         /\ new.interviewState = "inProgress")

\* the page is removed from the tree: its queued updates are dropped and
\* the cleanups of its effects run
Unmount ==
  /\ pending' = NoPending
  /\ recHandlers' = FALSE
  /\ recState' = RecStop(recState)
  /\ countdown' = ClearTimeout(countdown, Committed)
  /\ faceEnabled' = FALSE
  /\ UNCHANGED <<stateVars, latestTranscript, isTerminatedRef, events,
                 evalInFlight, evalBatch, sumInFlight, sumRequest, advanceLog, lastAdvance>>

\* the render of c calls renderResultsView, whose useState is one hook more
\* than any render of the page before it called: React throws ("Rendered
\* more hooks than during the previous render") and, no error boundary being
\* in the tree, unmounts the whole root
RenderThrows(c) == c.proctoringStatus = "ready" /\ c.interviewState = "results"

\* what is on screen once the root is unmounted
Blank == "blank"

Commit ==
  /\ pending # NoPending \/ appPending # None
  /\ appPending' = None
  /\ IF appPending # None
       THEN /\ view' = appPending[1].view
            /\ terminationMessage' = appPending[1].message
       ELSE /\ view' = IF Mounted /\ RenderThrows(Applied(Committed, pending))
                         THEN Blank ELSE view
            /\ UNCHANGED terminationMessage
  /\ IF /\ Mounted
        /\ appPending = None \/ appPending[1].view = "resume-interview"
        /\ ~RenderThrows(Applied(Committed, pending))
       THEN Render
       ELSE Unmount
  /\ UNCHANGED <<mcq, proctoringView, capture, events, genInFlight, faceSignals>>

\* the page shows a Back to Dashboard button: on the permission error screen
\* and on the results view
EndSessionOffered ==
  /\ Mounted
  /\ \/ proctoringStatus = "error"
     \/ proctoringStatus = "ready" /\ interviewState = "results"

\* Return to Dashboard on the termination page, Back to Dashboard on the
\* page
handleGoToDashboard ==
  /\ \/ view = "terminated"
     \/ EndSessionOffered
  /\ pending = NoPending /\ appPending = None
  /\ view' = "dashboard"
  /\ IF Mounted THEN Unmount
     ELSE UNCHANGED <<stateVars, latestTranscript, isTerminatedRef, pending,
                      recState, recHandlers, events, countdown, faceEnabled,
                      evalInFlight, evalBatch, sumInFlight, sumRequest, advanceLog, lastAdvance>>
  /\ UNCHANGED <<mcq, proctoringView, capture, terminationMessage, appPending, genInFlight, faceSignals>>

Next ==
  \/ \E allowed \in BOOLEAN : handleFileChange(allowed)
  \/ handleStartInterview
  \/ \E thrown \in BOOLEAN, g \in GenResults : GenerateResolve(thrown, g)
  \/ \E i \in 1..MaxQuestions, reply \in Replies : EvaluateRespond(i, reply)
  \/ EvaluateResolve
  \/ \E reply \in SummaryReplies : SummarizeResolve(reply)
  \/ Tick
  \/ \E f \in Fragments : RecResult(f)
  \/ \E code \in ErrorCodes : RecError(code)
  \/ handleFaceOutOfFrame
  \/ MediaReady
  \/ MediaError
  \/ Commit
  \/ handleGoToDashboard

Spec == Init /\ [][Next]_vars


\* ---- properties ----

\* the session phase of the specification: the page's interviewState, or
\* terminated once the latch is set and the page is gone
Phase == IF isTerminatedRef /\ ~Mounted THEN "terminated" ELSE interviewState

\* the Advances that took effect for question i
Effective(i) == {k \in 1..Len(advanceLog) : advanceLog[k] = i}

\* C1: when the Recording countdown reaching zero and a capture error both
\* call Advance for the same question, only one of the two takes effect.
C1_OneAdvancePerQuestion == lastAdvance.triggers # {"timer", "error"}

\* C2: the lock is held as soon as it was checked: a second Advance invoked
\* for the same question before any commit changes nothing, so no question
\* sees two Advances take effect and the queued increase of currentIndex
\* never exceeds 1.
C2_LockHeldWithinTurn ==
  /\ \A i \in 0..MaxQuestions : Cardinality(Effective(i)) <= 1
  /\ pending.indexInc <= 1

\* C3: once terminated is true, no step changes answers, currentIndex or
\* the page's phase, and no tick, capture event or Advance queues a change
\* of them.
C3_TerminatedFreezes ==
  [][isTerminatedRef =>
       /\ allAnswers' = allAnswers
       /\ currentQuestionIndex' = currentQuestionIndex
       /\ interviewState' = interviewState
       /\ Mounted' => /\ pending'.answers = pending.answers
                      /\ pending'.indexInc = pending.indexInc
                      /\ pending'.interviewState = pending.interviewState
                      /\ pending'.questions = pending.questions]_vars

\* a capture error was delivered after the latch was set, the lock being
\* free, and its Advance queued nothing
C3_Witness ==
  /\ isTerminatedRef /\ Mounted
  /\ ~isAdvancing
  /\ pending.recognitionError # None
  /\ pending.answers = <<>> /\ pending.indexInc = 0
  /\ pending.interviewState = None

C5_OneSignalOnlyWarns ==
  /\ faceSignals < 2 =>
       ~isTerminatedRef /\ view # "terminated" /\ appPending = None
  /\ faceSignals = 1 /\ pending.warnings = None => faceDetectionWarnings = 1

C5_Witness ==
  /\ faceSignals = 1 /\ faceDetectionWarnings = 1
  /\ interviewState = "inProgress" /\ interviewPhase = "recording"
  /\ ~isTerminatedRef

\* C6: in a session that reached Evaluating without being terminated,
\* Advance took effect exactly once per question index, in increasing order.
C6_EachQuestionAdvancedOnce ==
  interviewState \in {"evaluating", "summarizing", "results"} /\ ~isTerminatedRef
    => /\ Len(advanceLog) = Len(questions)
       /\ \A k \in 1..Len(advanceLog) : advanceLog[k] = k - 1

\* C7: once questions are generated, 0 <= currentIndex < len(questions).
C7_IndexInRange ==
  Len(questions) > 0 =>
    0 <= currentQuestionIndex /\ currentQuestionIndex < Len(questions)

\* C8: from InProgress on, answers is as long as questions, and no step
\* changes either length.
C8_AnswersAligned ==
  /\ [](interviewState \notin {"upload", "generating"}
          => Len(allAnswers) = Len(questions))
  /\ [][interviewState \notin {"upload", "generating"}
          => /\ Len(questions') = Len(questions)
             /\ Len(allAnswers') = Len(allAnswers)]_vars

\* every question was advanced and something was said
C8_Witness ==
  /\ interviewState = "evaluating"
  /\ Len(questions) >= 2
  /\ Len(allAnswers) = Len(questions)
  /\ \E i \in 1..Len(allAnswers) : allAnswers[i] # <<>>

\* C9: currentIndex never decreases.
C9_IndexMonotonic ==
  [][currentQuestionIndex' >= currentQuestionIndex]_vars

C9_Witness == currentQuestionIndex >= 1 /\ interviewState = "inProgress"

\* C10: the terminated latch is never reset, and after it is set the only
\* phase change left is the one into Terminated.
C10_TerminationIrreversible ==
  [][isTerminatedRef =>
       /\ isTerminatedRef'
       /\ Phase' # Phase => Phase' = "terminated"]_vars

\* the terminated session after Return to Dashboard
C10_Witness == isTerminatedRef /\ view = "dashboard" /\ Phase = "terminated"

\* ---- fairness: what the runtime guarantees ----
\* the steps of Next, with the events the environment delivers limited to
\* MaxLiveEvents per run
LiveNext ==
  \/ \E allowed \in BOOLEAN : handleFileChange(allowed)
  \/ handleStartInterview
  \/ \E thrown \in BOOLEAN, g \in GenResults : GenerateResolve(thrown, g)
  \/ \E i \in 1..MaxQuestions, reply \in Replies : EvaluateRespond(i, reply)
  \/ EvaluateResolve
  \/ \E reply \in SummaryReplies : SummarizeResolve(reply)
  \/ Tick
  \/ \E f \in Fragments : events < MaxLiveEvents /\ RecResult(f)
  \/ \E code \in ErrorCodes : events < MaxLiveEvents /\ RecError(code)
  \/ events < MaxLiveEvents /\ handleFaceOutOfFrame
  \/ MediaReady
  \/ events < MaxLiveEvents /\ MediaError
  \/ Commit
  \/ handleGoToDashboard

\* a scheduled countdown timeout fires, React renders queued updates, and
\* every AI request settles (the service functions catch their own failures)
FairSpec ==
  /\ Init /\ [][LiveNext]_vars
  /\ WF_vars(Tick)
  /\ WF_vars(Commit)
  /\ WF_vars(\E thrown \in BOOLEAN, g \in GenResults : GenerateResolve(thrown, g))
  /\ WF_vars(\E i \in 1..MaxQuestions, reply \in Replies : EvaluateRespond(i, reply))
  /\ WF_vars(EvaluateResolve)
  /\ WF_vars(\E reply \in SummaryReplies : SummarizeResolve(reply))

\* C11: no phase without exit: Generating leads to InProgress or Upload, and
\* InProgress, Evaluating and Summarizing lead to Results or Terminated
\* (unless the user leaves the page from the permission error screen).
C11_NoStuckPhase ==
  /\ (interviewState = "generating")
       ~> (interviewState \in {"inProgress", "upload"} \/ view = "dashboard")
  /\ (Phase \in {"inProgress", "evaluating", "summarizing"})
       ~> (Phase \in {"results", "terminated"} \/ view = "dashboard")

\* a step in which the session handles a capture error / a subject-absent
\* signal (a capture result always lengthens latestTranscript)
RecErrorStep ==
  /\ events' = events + 1
  /\ latestTranscript' = latestTranscript
  /\ faceSignals' = faceSignals
  /\ pending'.proctoringStatus = pending.proctoringStatus
  /\ pending'.recognitionError # None

FaceStep == faceSignals' = faceSignals + 1

\* C12: a capture error handled during Recording of a session that is not
\* terminated and whose lock is free makes Advance take effect at once,
\* whatever timerValue is: the transcript accumulated so far (trimmed,
\* possibly empty) is written to answers[currentIndex], the index increase or
\* the move to Evaluating is queued, and an error message is set.
C12_ErrorAdvances ==
  [][(/\ RecErrorStep
      /\ interviewState = "inProgress" /\ interviewPhase = "recording"
      /\ ~isTerminatedRef /\ ~isAdvancing)
     => /\ pending'.answers =
             Append(pending.answers,
                    [i |-> currentQuestionIndex, v |-> Trim(latestTranscript)])
        /\ Applied(Committed, pending').allAnswers[currentQuestionIndex + 1]
             = Trim(latestTranscript)
        /\ advanceLog' = Append(advanceLog, currentQuestionIndex)
        /\ pending'.isAdvancing = Some(TRUE)
        /\ IF currentQuestionIndex < Len(questions) - 1
             THEN pending'.indexInc = pending.indexInc + 1
             ELSE pending'.interviewState = Some("evaluating")
        /\ pending'.recognitionError \in {Some(ErrorMessage(c)) : c \in ErrorCodes}
    ]_vars

\* an error arrived with seconds left on the Recording countdown and
\* something said: the answer is queued and the message is up
C12_Witness ==
  /\ interviewState = "inProgress" /\ interviewPhase = "recording"
  /\ timer > 0 /\ ~isAdvancing /\ ~isTerminatedRef
  /\ lastAdvance = [index |-> currentQuestionIndex, triggers |-> {"error"}]
  /\ pending.recognitionError # None
  /\ Len(pending.answers) = 1 /\ pending.answers[1].v = <<"w">>

\* ---- the evaluation of a finished session, on its own ----

\* the number of answers in as for which something was heard
RECURSIVE Spoken(_)
Spoken(as) ==
  IF as = <<>> THEN 0
  ELSE (IF Head(as) = <<>> THEN 0 ELSE 1) + Spoken(Tail(as))

\* the state right after the render that entered Evaluating, for a session
\* of n questions in which every Recording ran to the end of its countdown
\* and the answers heard were as
EvalInit ==
  \E n \in 1..MaxQuestions : \E as \in [1..n -> Fragments] :
    /\ view = "resume-interview"
    /\ terminationMessage = ""
    /\ appPending = None
    /\ resumeFile = TRUE
    /\ error = "null"
    /\ questions = QuestionList(n)
    /\ currentQuestionIndex = n - 1
    /\ interviewState = "evaluating"
    /\ interviewPhase = "recording"
    /\ timer = 0
    /\ allAnswers = as
    /\ isAdvancing = TRUE
    /\ recognitionError = "null"
    /\ faceDetectionWarnings = 0
    /\ interviewResults = <<>>
    /\ performanceSummary = Null
    /\ proctoringStatus = "ready"
    /\ latestTranscript = IF as[n] = <<>> THEN <<>> ELSE as[n] \o <<" ">>
    /\ isTerminatedRef = FALSE
    /\ pending = NoPending
    /\ recState = "stopping"
    /\ recHandlers = TRUE
    /\ events = Spoken(as)
    /\ countdown = <<>>
    /\ faceEnabled = FALSE
    /\ genInFlight = FALSE
    /\ evalInFlight = 1
    /\ evalBatch = StartBatch(Committed)
    /\ sumInFlight = 0
    /\ sumRequest = None
    /\ advanceLog = [k \in 1..n |-> k - 1]
    /\ lastAdvance = [index |-> n - 1, triggers |-> {"timer"}]
    /\ faceSignals = 0
    /\ mcq = McqStart
    /\ proctoringView = ViewStart
    /\ capture = CaptureStart

EvalNext ==
  \/ \E i \in 1..MaxQuestions, reply \in ScoredReplies : EvaluateRespond(i, reply)
  \/ EvaluateResolve
  \/ \E reply \in SummaryReplies : SummarizeResolve(reply)
  \/ Commit

\* every request settles and React renders queued updates; with the
\* permissions granted no view of these phases offers a button
EvalSpec ==
  /\ EvalInit /\ [][EvalNext]_vars
  /\ WF_vars(\E i \in 1..MaxQuestions, reply \in ScoredReplies : EvaluateRespond(i, reply))
  /\ WF_vars(EvaluateResolve)
  /\ WF_vars(\E reply \in SummaryReplies : SummarizeResolve(reply))
  /\ WF_vars(Commit)

\* steps of the batch evaluation: one request settles / the continuation
\* after Promise.all runs
RespondStep == evalInFlight' = evalInFlight /\ evalBatch' # evalBatch /\ evalInFlight > 0
ResolveStep == evalInFlight' = evalInFlight - 1

\* C13: a failed evaluateAnswer call yields score 0 with the fallback
\* feedback; a request that settles leaves the values of the other requests
\* alone; the assembled result k carries what request k returned; and a
\* session in Evaluating reaches Results.
C13_FailedEvaluationIsolated ==
  /\ [](\A reply \in ScoredReplies \ {"scored", "overscored"} :
          evaluateAnswer(reply) = [feedback |-> EvalFallback, score |-> 0])
  /\ [][RespondStep =>
          \E k \in 1..Len(evalBatch.responses) :
            /\ evalBatch.responses[k] = None
            /\ evalBatch'.responses[k] \in {Some(evaluateAnswer(reply)) : reply \in ScoredReplies}
            /\ \A i \in 1..Len(evalBatch.responses) :
                 i # k => evalBatch'.responses[i] = evalBatch.responses[i]]_vars
  /\ [][ResolveStep =>
          /\ pending'.results # None
          /\ pending'.interviewState = Some("summarizing")
          /\ Len(pending'.results[1]) = Len(questions)
          /\ \A k \in 1..Len(questions) :
               /\ pending'.results[1][k].score = evalBatch.responses[k][1].score
               /\ pending'.results[1][k].feedback = evalBatch.responses[k][1].feedback]_vars
  /\ (interviewState = "evaluating") ~> (Phase = "results")

\* C14: once the Thinking countdown shows 0 in a session that is not
\* terminated, Recording with timerValue = 30 is queued; the engine is
\* started in the step that queues it; and the sub-phase turns to Recording
\* only from Thinking at 0, with timerValue 30.
C14_RecordingAfterThinking ==
  /\ []((/\ Mounted /\ interviewState = "inProgress" /\ ~isTerminatedRef
         /\ interviewPhase = "thinking" /\ timer = 0)
        => /\ pending.interviewPhase = Some("recording")
           /\ pending.timerSet = Some(RecordingSeconds)
           /\ pending.timerDec = 0)
  /\ [][(/\ pending'.interviewPhase = Some("recording")
         /\ pending.interviewPhase # Some("recording"))
        => /\ recState' = "active"
           /\ interviewPhase' = "thinking" /\ timer' = 0]_vars
  /\ [][(interviewPhase' = "recording" /\ interviewPhase # "recording")
        => /\ interviewPhase = "thinking" /\ timer = 0
           /\ timer' = RecordingSeconds]_vars

\* the second question has just entered Recording
C14_Witness ==
  /\ interviewState = "inProgress" /\ currentQuestionIndex = 1
  /\ interviewPhase = "recording" /\ timer = RecordingSeconds
  /\ recState = "active" /\ ~isAdvancing

\* everything but the counters of delivered events stays as it is
OnlyCounted ==
  UNCHANGED <<mcq, proctoringView, capture, appVars, stateVars, latestTranscript, isTerminatedRef, pending,
              recState, recHandlers, countdown, faceEnabled, genInFlight,
              evalInFlight, evalBatch, sumInFlight, sumRequest, advanceLog, lastAdvance>>

\* C15: the first subject-absent signal handled while InProgress and not
\* terminated queues violationCount = 1 and nothing else: phase, sub-phase,
\* timerValue, currentIndex, answers, the lock and the latch are unchanged,
\* now and in the render that shows the count.
C15_FirstSignalOnlyCounts ==
  [][(/\ FaceStep /\ faceSignals = 0
      /\ interviewState = "inProgress" /\ ~isTerminatedRef)
     => /\ pending' = [pending EXCEPT !.warnings = Some(1)]
        /\ Applied(Committed, pending').faceDetectionWarnings = 1
        /\ Applied(Committed, pending') =
             [Applied(Committed, pending) EXCEPT !.faceDetectionWarnings = 1]
        /\ UNCHANGED <<mcq, proctoringView, capture, appVars, stateVars, latestTranscript, isTerminatedRef,
                       recState, recHandlers, countdown, faceEnabled,
                       genInFlight, evalInFlight, evalBatch, sumInFlight, sumRequest,
                       advanceLog, lastAdvance>>
    ]_vars

\* the first signal arrived during a Recording countdown
C15_Witness ==
  /\ faceSignals = 1 /\ pending.warnings = Some(1)
  /\ faceDetectionWarnings = 0 /\ ~isTerminatedRef
  /\ interviewState = "inProgress" /\ interviewPhase = "recording"
  /\ timer < RecordingSeconds /\ timer > 0

InterviewStates ==
  {"upload", "generating", "inProgress", "evaluating", "summarizing", "results"}

\* C16: a subject-absent signal that reaches the handler while the phase is
\* not InProgress, or after the latch is set, takes the ignoring branch and
\* changes nothing: no count, no termination, no second onTerminate.
C16_SignalIgnored ==
  /\ [](\A st \in InterviewStates, w \in 0..1, t \in BOOLEAN :
          (t \/ st # "inProgress") =>
            FaceOutOfFrameBranch([Committed EXCEPT !.interviewState = st,
                                                   !.faceDetectionWarnings = w], t)
              = "ignored")
  /\ [][(FaceStep /\ (isTerminatedRef \/ interviewState # "inProgress"))
        => /\ FaceOutOfFrameBranch(Committed, isTerminatedRef) = "ignored"
           /\ OnlyCounted]_vars

\* a third signal was delivered after the second one had terminated the
\* session and before the page was taken down
C16_Witness ==
  /\ faceSignals = 3 /\ isTerminatedRef /\ Mounted
  /\ appPending = handleTerminate(TerminationText)

\* C17: once the latch is set, timerValue never changes again and no
\* countdown tick is scheduled any more; a tick that was scheduled before
\* may still fire, and what it queues is never rendered.
C17_NoTickAfterTermination ==
  [][isTerminatedRef => /\ timer' = timer
                        /\ Len(countdown') <= Len(countdown)]_vars

\* the latch was set while a tick was queued and not yet rendered
C17_Witness ==
  /\ isTerminatedRef /\ Mounted /\ appPending # None
  /\ pending.timerDec = 1 /\ timer > 1
  /\ interviewPhase = "recording"

\* C18: whatever the order in which the requests settled, the assembled
\* results follow the question order: result i carries questions[i], the
\* committed answers[i] or the placeholder when it is empty, and the feedback
\* and score of request i (on a page still on screen); this is what the
\* following renders show.
C18_ResultsInQuestionOrder ==
  /\ [][ResolveStep /\ Mounted =>
          pending'.results =
            Some([i \in 1..Len(questions) |->
                    [question |-> questions[i],
                     answer |-> IF allAnswers[i] = <<>> THEN NoAnswer
                                ELSE allAnswers[i],
                     feedback |-> evalBatch.responses[i][1].feedback,
                     score |-> evalBatch.responses[i][1].score]])]_vars
  /\ [](interviewState \in {"summarizing", "results"} =>
          /\ Len(interviewResults) = Len(questions)
          /\ \A i \in 1..Len(questions) :
               /\ interviewResults[i].question = questions[i]
               /\ interviewResults[i].answer =
                    (IF allAnswers[i] = <<>> THEN NoAnswer ELSE allAnswers[i]))

\* the request of question 2 settled, with a failure, before that of
\* question 1, whose answer is empty
C18_Witness ==
  /\ interviewState = "evaluating" /\ Len(questions) = 2
  /\ allAnswers[1] = <<>> /\ allAnswers[2] # <<>>
  /\ evalBatch.responses[1] = None
  /\ evalBatch.responses[2] = Some(evaluateAnswer("error"))

\* C19: from InProgress until Results the page offers no way to end the
\* session: Back to Dashboard is offered only once the phase is Results.
C19_NoEarlyEnd ==
  interviewState \in {"inProgress", "evaluating", "summarizing"}
    => ~EndSessionOffered

\* ---- the Advance operation, step by step ----

\* a step in which an Advance takes effect, and the question it is for: the
\* index in the closure of the caller
AdvanceStep == Len(advanceLog') = Len(advanceLog) + 1
Advanced == advanceLog'[Len(advanceLog')]

\* the updates queued when the step began that are still queued after it:
\* none when the step is a render (the Advance of the timer effect), all of
\* them when it is a capture error
QueuedBefore == IF events' = events THEN NoPending ELSE pending

\* a render of the page that applies a queued increase of the index
RenderOfAdvance == Mounted /\ Mounted' /\ pending.indexInc > 0 /\ pending'.indexInc = 0

\* C21: an Advance that takes effect on a question that is not the last one
\* stops the engine, queues the trimmed transcript for answers[currentIndex]
\* and no other slot, and queues an increase of currentIndex by 1; the render
\* that follows shows currentIndex one higher and resets to Thinking with
\* timerValue = 10, an empty transcript and the lock released.
C21_AdvanceToNextQuestion ==
  /\ [][(AdvanceStep /\ Advanced < Len(questions') - 1)
        => /\ recState' # "active"
           /\ pending'.answers =
                Append(QueuedBefore.answers,
                       [i |-> Advanced, v |-> Trim(latestTranscript')])
           /\ pending'.indexInc = QueuedBefore.indexInc + 1
           /\ pending'.interviewState = QueuedBefore.interviewState]_vars
  /\ [][RenderOfAdvance
        => /\ currentQuestionIndex' = currentQuestionIndex + 1
           /\ currentQuestionIndex' < Len(questions')
           /\ latestTranscript' = <<>>
           /\ Applied(Committed', pending').interviewPhase = "thinking"
           /\ Applied(Committed', pending').timer = ThinkingSeconds
           /\ Applied(Committed', pending').isAdvancing = FALSE]_vars

\* C22: an Advance that takes effect on the last question queues the answer
\* for answers[currentIndex], no increase of currentIndex and the move to
\* Evaluating; nothing else queues that move; the render that enters
\* Evaluating comes from InProgress and leaves currentIndex alone; and while
\* the phase is Evaluating currentIndex = len(questions) - 1.
C22_LastAdvanceEvaluates ==
  /\ [][(AdvanceStep /\ Advanced = Len(questions') - 1)
        => /\ pending'.answers =
                Append(QueuedBefore.answers,
                       [i |-> Advanced, v |-> Trim(latestTranscript')])
           /\ pending'.indexInc = 0
           /\ pending'.interviewState = Some("evaluating")]_vars
  /\ [][(/\ pending'.interviewState = Some("evaluating")
         /\ pending.interviewState # Some("evaluating"))
        => AdvanceStep /\ Advanced = Len(questions') - 1]_vars
  /\ [][(interviewState' = "evaluating" /\ interviewState # "evaluating")
        => /\ interviewState = "inProgress"
           /\ pending.interviewState = Some("evaluating")
           /\ currentQuestionIndex' = currentQuestionIndex
           /\ allAnswers'[currentQuestionIndex + 1]
                = pending.answers[Len(pending.answers)].v]_vars
  /\ [](interviewState = "evaluating"
          => currentQuestionIndex = Len(questions) - 1)

\* the second of two questions was advanced with something said, and the
\* session is in Evaluating
C22_Witness ==
  /\ interviewState = "evaluating" /\ Len(questions) = 2
  /\ currentQuestionIndex = 1 /\ advanceLog = <<0, 1>>
  /\ allAnswers[2] = <<"w">>

\* C23: the lock is held only while an advancement is under way: in
\* InProgress it is free in every render with no update left to apply, and
\* free whenever a countdown tick is scheduled and no release is queued.
C23_LockTransient ==
  /\ (/\ Mounted /\ interviewState = "inProgress"
      /\ pending = NoPending /\ appPending = None) => ~isAdvancing
  /\ (/\ Mounted /\ interviewState = "inProgress"
      /\ countdown # <<>> /\ pending.isAdvancing = None) => ~isAdvancing

GenerationErrors == {Placeholder, DefaultGenError, UnexpectedError}

\* C25: a generation that fails (empty list, error placeholder or a throw)
\* queues the return to Upload with a non-empty message; and in the Upload
\* view that shows such a message a start request is accepted.
C25_FailureRetryable ==
  /\ [][\A thrown \in BOOLEAN, g \in GenResults :
          (/\ Mounted /\ genInFlight
           /\ thrown \/ Len(g) = 0 \/ IncludesCouldNot(g[1])
           /\ GenerateResolve(thrown, g))
          => /\ pending'.interviewState = Some("upload")
             /\ pending'.error \in {Some(e) : e \in GenerationErrors}
             /\ pending'.questions = None]_vars
  /\ []((/\ Mounted /\ proctoringStatus = "ready" /\ interviewState = "upload"
         /\ resumeFile /\ error \in GenerationErrors
         /\ pending = NoPending /\ appPending = None)
        => StartOffered)

\* a step in which a countdown timeout fires
TickStep == pending'.timerDec = pending.timerDec + 1

\* C26: at most one countdown tick is scheduled at any time; a scheduled
\* tick belongs to the phase, sub-phase and question on screen, so a tick
\* that fires decrements timerValue of the sub-phase that scheduled it; a
\* render that changes the phase, the sub-phase or the question leaves no
\* tick of the render before; no render applies more than one decrement; and
\* a sub-phase starts with its full time, whatever ticks fired before.
C26_TickCancellation ==
  /\ [](Len(countdown) <= 1)
  /\ [](\A k \in 1..Len(countdown) :
          /\ Mounted /\ interviewState = "inProgress" /\ timer > 0
          /\ countdown[k] = TickFor(Committed))
  /\ [][TickStep => /\ countdown # <<>>
                    /\ countdown[1] = TickFor(Committed)
                    /\ countdown' = <<>>]_vars
  /\ [][TickFor(Committed)' # TickFor(Committed)
          => \A k \in 1..Len(countdown') : countdown'[k] = TickFor(Committed)']_vars
  /\ [](pending.timerDec <= 1)
  /\ [][(Mounted' /\ interviewPhase' # interviewPhase)
        => timer' = (IF interviewPhase' = "thinking" THEN ThinkingSeconds
                     ELSE RecordingSeconds)]_vars
  /\ [][(Mounted' /\ timer' # timer)
        => \/ timer' = timer - 1
           \/ /\ pending.timerSet = Some(timer')
              /\ timer' = (IF interviewPhase' = "thinking" THEN ThinkingSeconds
                           ELSE RecordingSeconds)]_vars

\* a Thinking tick is scheduled for the second question after the Recording
\* of the first one was cut short by a capture error
C26_Witness ==
  /\ countdown = <<[interviewState |-> "inProgress",
                    interviewPhase |-> "thinking", index |-> 1]>>
  /\ timer = ThinkingSeconds /\ currentQuestionIndex = 1
  /\ lastAdvance = [index |-> 0, triggers |-> {"error"}]

\* C27: while the page is shown, face detection is enabled if and only if
\* the phase is InProgress.
C27_DetectionWhileInProgress ==
  Mounted => (faceEnabled <=> interviewState = "inProgress")

\* a step in which the evaluation effect issues its requests
BatchStep == evalInFlight' = evalInFlight + 1

\* C30: the requests of a session are issued in one batch, one per question,
\* in the render that enters Evaluating; every such render issues them; no
\* batch is issued while one is in flight or after Evaluating was left; the
\* move to Summarizing is queued only by a step that found every response
\* received; and Evaluating is left only for Summarizing, with one result
\* per question.
C30_OneRequestPerQuestion ==
  /\ [](evalInFlight <= 1)
  /\ [][BatchStep
        => /\ evalInFlight = 0
           /\ interviewState = "inProgress" /\ interviewState' = "evaluating"
           /\ evalBatch'.questions = questions'
           /\ Len(evalBatch'.responses) = Len(questions')
           /\ \A i \in 1..Len(questions') : evalBatch'.responses[i] = None]_vars
  /\ [][(Mounted' /\ interviewState # "evaluating" /\ interviewState' = "evaluating")
        => BatchStep]_vars
  /\ [][(interviewState \in {"summarizing", "results"})
        => (interviewState' \in {"summarizing", "results"})]_vars
  /\ [][(/\ pending'.interviewState = Some("summarizing")
         /\ pending.interviewState # Some("summarizing"))
        => /\ ResolveStep
           /\ Len(evalBatch.responses) = Len(questions)
           /\ \A i \in 1..Len(questions) : evalBatch.responses[i] # None]_vars
  /\ [][(interviewState = "evaluating" /\ interviewState' # "evaluating")
        => /\ interviewState' = "summarizing"
           /\ pending.interviewState = Some("summarizing")
           /\ Len(interviewResults') = Len(questions)]_vars

\* both responses of a session of two questions are in and the continuation
\* after Promise.all has not run yet
C30_Witness ==
  /\ interviewState = "evaluating" /\ Len(questions) = 2 /\ evalInFlight = 1
  /\ evalBatch.responses[1] # None /\ evalBatch.responses[2] # None
  /\ pending.interviewState = None

\* ---- the summary ----

\* a step in which the summary effect issues its request
SumStep == sumInFlight' = sumInFlight + 1

\* a step that queues the move to Results
QueuesResults ==
  /\ pending'.interviewState = Some("results")
  /\ pending.interviewState # Some("results")

\* C31: one summary request per session, issued in the render that enters
\* Summarizing, every such render issuing it, with the results that render
\* stores, one per question; none is issued once one was; the move to
\* Results is queued only by the response of that request and together with
\* the summary it carried; and in Results a summary is stored.
C31_SummaryOnceAfterResults ==
  /\ [](sumInFlight <= 1)
  /\ [][SumStep
        => /\ sumRequest = None
           /\ interviewState = "evaluating" /\ interviewState' = "summarizing"
           /\ pending.results # None
           /\ interviewResults' = pending.results[1]
           /\ sumRequest' = Some(interviewResults')
           /\ Len(interviewResults') = Len(questions')
           /\ \A i \in 1..Len(questions') :
                interviewResults'[i].question = questions'[i]]_vars
  /\ [][(Mounted' /\ interviewState # "summarizing"
           /\ interviewState' = "summarizing") => SumStep]_vars
  /\ [][(sumRequest # None) => (sumRequest' = sumRequest)]_vars
  /\ [][QueuesResults
        => /\ sumInFlight' = sumInFlight - 1
           /\ interviewState = "summarizing"
           /\ sumRequest = Some(interviewResults)
           /\ pending'.performanceSummary \in
                {Some(summarizeInterviewPerformance(reply)) : reply \in SummaryReplies}]_vars
  /\ [](pending.interviewState = Some("results")
          => pending.performanceSummary # None)
  /\ [](interviewState = "results" => performanceSummary # Null)

\* the response of the summary request of a session of two questions has
\* arrived: the summary and the move to Results are queued
C31_Witness ==
  /\ Mounted /\ interviewState = "summarizing" /\ Len(interviewResults) = 2
  /\ sumRequest = Some(interviewResults) /\ sumInFlight = 0
  /\ pending.interviewState = Some("results")
  /\ pending.performanceSummary = Some(summarizeInterviewPerformance("complete"))

\* ---- the AI calls and their fallbacks ----

\* the replies that are no usable response: the call threw, the text is not
\* JSON, or the JSON lacks what the operation asked for
GenFailures == {reply \in GenReplies : reply.kind # "array"}
EvalFailures == {"error", "malformed"}
SummaryFailures == {"error", "malformed", "partial"}

\* C32: a generation reply that is no array yields no question list (the
\* empty list or an error placeholder, both of which send the session back to
\* Upload); an evaluation reply that is no feedback with a score yields score
\* 0 with the fallback feedback; and a summary reply that is not both texts
\* yields the fallback texts: the summary queued for Results is either the
\* fallback or a complete one.
C32_MalformedLikeFailure ==
  /\ [](\A reply \in GenFailures :
          LET g == generateQuestionsFromResume(reply)
          IN Len(g) = 0 \/ IncludesCouldNot(g[1]))
  /\ [](\A reply \in EvalFailures :
          evaluateAnswer(reply) = [feedback |-> EvalFallback, score |-> 0])
  /\ [][\A reply \in SummaryFailures :
          (Mounted /\ SummarizeResolve(reply))
            => pending'.performanceSummary = Some(SummaryFallback)]_vars

\* C33: every assembled result carries a score of 1 to 5, or the fallback:
\* score 0 with the fallback feedback.
C33_ScoreInRange ==
  \A i \in 1..Len(interviewResults) :
    \/ interviewResults[i].score \in 1..5
    \/ /\ interviewResults[i].score = 0
       /\ interviewResults[i].feedback = EvalFallback

\* ---- McqTestPage (every reader of its state is a click handler, which
\* React runs against the latest render, so updates are applied at once) ----

\* the subjects offered in this model, out of the six of the page
Subjects == {"DBMS", "CN"}

\* every generated question offers the same options; questions differ in
\* their correct answer
Options == <<"a", "b">>

Mcq(correct) == [options |-> Options, correctAnswer |-> correct]

\* the placeholder generateMcqTest returns when the call fails
McqPlaceholder == [options |-> <<>>, correctAnswer |-> ""]

\* what generateMcqTest can resolve to
McqResults ==
  UNION {[1..n -> {Mcq("a"), Mcq("b")}] : n \in 0..MaxMcq}
    \cup {<<McqPlaceholder>>}

\* new Array(n).fill('')
McqFill(n) == [i \in 1..n |-> ""]

McqMounted == view = "mcq-test"

\* the question view is on screen
QuestionShown ==
  /\ McqMounted /\ mcq.proctoringStatus = "ready"
  /\ ~mcq.showResults /\ ~mcq.isLoading
  /\ mcq.selectedSubject # None /\ Len(mcq.questions) > 0

\* the subject grid is on screen
SubjectsShown ==
  /\ McqMounted /\ mcq.proctoringStatus = "ready"
  /\ ~mcq.showResults /\ ~mcq.isLoading
  /\ mcq.selectedSubject = None \/ Len(mcq.questions) = 0

\* the number of questions answered correctly
RECURSIVE CountCorrect(_, _, _)
CountCorrect(qs, answers, k) ==
  IF k > Len(qs) THEN 0
  ELSE (IF k <= Len(answers) /\ qs[k].correctAnswer = answers[k] THEN 1 ELSE 0)
         + CountCorrect(qs, answers, k + 1)

resumeVars == <<appVars, stateVars, envVars, proctoringView, capture>>

McqMediaReady ==
  /\ McqMounted /\ mcq.proctoringStatus = "pending"
  /\ mcq' = [mcq EXCEPT !.proctoringStatus = "ready"]
  /\ UNCHANGED resumeVars

McqMediaError ==
  /\ McqMounted /\ mcq.proctoringStatus \in {"pending", "ready"}
  /\ mcq' = [mcq EXCEPT !.proctoringStatus = "error"]
  /\ UNCHANGED resumeVars

\* a subject button: setSelectedSubject, then the fetch effect when the
\* subject changed
SelectSubject(subject) ==
  /\ SubjectsShown
  /\ IF mcq.selectedSubject # Some(subject)
       THEN mcq' = [mcq EXCEPT !.selectedSubject = Some(subject),
                               !.isLoading = TRUE,
                               !.fetching = Some(subject)]
       ELSE mcq' = mcq
  /\ UNCHANGED resumeVars

\* fetchQuestions after its await
FetchResolve(fetchedQuestions) ==
  /\ mcq.fetching # None
  /\ mcq' = IF McqMounted
              THEN [mcq EXCEPT !.questions = fetchedQuestions,
                               !.userAnswers = McqFill(Len(fetchedQuestions)),
                               !.isLoading = FALSE,
                               !.fetching = None]
              ELSE [mcq EXCEPT !.fetching = None]
  /\ UNCHANGED resumeVars

\* variant of handleSelectAnswer that, past the first question, writes the
\* slot of the question before
handleSelectAnswerBefore(option) ==
  /\ QuestionShown
  /\ \E k \in 1..Len(mcq.questions[mcq.currentQuestionIndex + 1].options) :
       mcq.questions[mcq.currentQuestionIndex + 1].options[k] = option
  /\ mcq' = [mcq EXCEPT !.userAnswers[IF mcq.currentQuestionIndex = 0 THEN 1
                                      ELSE mcq.currentQuestionIndex] = option]
  /\ UNCHANGED resumeVars

\* an option button of the current question
handleSelectAnswer(option) ==
  /\ QuestionShown
  /\ \E k \in 1..Len(mcq.questions[mcq.currentQuestionIndex + 1].options) :
       mcq.questions[mcq.currentQuestionIndex + 1].options[k] = option
  /\ mcq' = [mcq EXCEPT !.userAnswers[mcq.currentQuestionIndex + 1] = option]
  /\ UNCHANGED resumeVars

\* the Next / Submit button, disabled until the current question is answered
handleNextQuestion ==
  /\ QuestionShown
  /\ mcq.userAnswers[mcq.currentQuestionIndex + 1] # ""
  /\ IF mcq.currentQuestionIndex < Len(mcq.questions) - 1
       THEN mcq' = [mcq EXCEPT !.currentQuestionIndex = @ + 1]
       ELSE mcq' = [mcq EXCEPT
                      !.score = CountCorrect(mcq.questions, mcq.userAnswers, 1),
                      !.showResults = TRUE]
  /\ UNCHANGED resumeVars

\* Back to Dashboard: on the permission error screen, on the results and
\* under the subject grid
McqEndSession ==
  /\ McqMounted
  /\ \/ mcq.proctoringStatus = "error"
     \/ mcq.proctoringStatus = "ready" /\ mcq.showResults
     \/ SubjectsShown
  /\ view' = "dashboard"
  /\ UNCHANGED <<mcq, proctoringView, capture, terminationMessage, appPending, stateVars, envVars>>

\* App shows the MCQ test
McqInit ==
  /\ view = "mcq-test"
  /\ terminationMessage = ""
  /\ appPending = None
  /\ resumeFile = FALSE
  /\ error = "null"
  /\ questions = <<>>
  /\ currentQuestionIndex = 0
  /\ interviewState = "upload"
  /\ interviewPhase = "idle"
  /\ timer = ThinkingSeconds
  /\ allAnswers = <<>>
  /\ isAdvancing = FALSE
  /\ recognitionError = "null"
  /\ faceDetectionWarnings = 0
  /\ interviewResults = <<>>
  /\ performanceSummary = Null
  /\ proctoringStatus = "pending"
  /\ latestTranscript = <<>>
  /\ isTerminatedRef = FALSE
  /\ pending = NoPending
  /\ recState = "idle"
  /\ recHandlers = FALSE
  /\ events = 0
  /\ countdown = <<>>
  /\ faceEnabled = FALSE
  /\ genInFlight = FALSE
  /\ evalInFlight = 0
  /\ evalBatch = NoBatch
  /\ sumInFlight = 0
  /\ sumRequest = None
  /\ advanceLog = <<>>
  /\ lastAdvance = NoAdvance
  /\ faceSignals = 0
  /\ mcq = McqStart
  /\ proctoringView = ViewStart
  /\ capture = CaptureStart

McqNext ==
  \/ McqMediaReady
  \/ McqMediaError
  \/ \E subject \in Subjects : SelectSubject(subject)
  \/ \E fetched \in McqResults : FetchResolve(fetched)
  \/ \E option \in {"a", "b"} : handleSelectAnswer(option)
  \/ handleNextQuestion
  \/ McqEndSession

McqSpec == McqInit /\ [][McqNext]_vars

\* C20: in the MCQ test currentQuestionIndex never decreases, and the answer
\* of a question the user has moved past (with Next, or with Submit for the
\* last one) never changes again.
C20_McqNoGoingBack ==
  [][/\ mcq'.currentQuestionIndex >= mcq.currentQuestionIndex
     /\ \A i \in 1..Len(mcq.userAnswers) :
          (i <= mcq.currentQuestionIndex \/ mcq.showResults)
            => /\ i <= Len(mcq'.userAnswers)
               /\ mcq'.userAnswers[i] = mcq.userAnswers[i]]_vars

\* on the second question, its answer chosen, the first one answered before
C20_Witness ==
  /\ mcq.currentQuestionIndex = 1 /\ ~mcq.showResults
  /\ mcq.userAnswers = <<"a", "b">>

\* ---- ProctoringView on the clock (seconds), under a page that renders ----

pageVars == <<appVars, stateVars, envVars, mcq, capture>>

\* Math.random() * 10000 + 15000, in whole seconds
Intervals == MinInterval..MaxInterval

\* what the timeout callback of a face check does, by the isMounted flag of
\* the run of the effect that scheduled it
FaceCheckCallback(isMounted) == IF isMounted THEN "deliver" ELSE "nothing"

\* the cleanup of the current run of the effect: isMounted = false and
\* clearTimeout(faceDetectionTimer); the warm-up timeout, whose id was not
\* kept, stays scheduled
EffectCleanup(pv) ==
  [pv EXCEPT !.orphanWarmups = IF pv.warmup = None THEN @ ELSE @ \cup {pv.warmup[1]},
             !.warmup = None,
             !.check = None]

\* the body of the effect: with detection enabled, the warm-up timeout
EffectRun(pv, enable) ==
  [pv EXCEPT !.enableFaceDetection = enable,
             !.warmup = IF enable THEN Some(WarmupDelay) ELSE None,
             !.check = None]

\* the page renders in state st: onError is a new function in every render,
\* so the view renders too and its effect is cleaned up and run again
ParentRender(pv, st) ==
  [EffectRun(EffectCleanup(pv), st = "inProgress") EXCEPT
     !.interviewState = st, !.renderDue = FALSE]

\* the session enters InProgress: from now on the countdown renders the
\* page every second
ViewEnterInProgress ==
  /\ proctoringView.mounted /\ proctoringView.interviewState = "upload"
  /\ proctoringView' =
       [ParentRender(proctoringView, "inProgress") EXCEPT !.ticking = TRUE]
  /\ UNCHANGED pageVars

\* the countdown stops with the session still InProgress (currentIndex =
\* len(questions) after a doubled Advance)
ViewStall ==
  /\ proctoringView.mounted /\ proctoringView.interviewState = "inProgress"
  /\ proctoringView.ticking /\ ~proctoringView.renderDue
  /\ proctoringView' = [proctoringView EXCEPT !.ticking = FALSE]
  /\ UNCHANGED pageVars

\* the session leaves InProgress for Evaluating
ViewLeaveInProgress ==
  /\ proctoringView.mounted /\ proctoringView.interviewState = "inProgress"
  /\ ~proctoringView.terminating
  /\ proctoringView' =
       [ParentRender(proctoringView, "evaluating") EXCEPT !.ticking = FALSE]
  /\ UNCHANGED pageVars

\* the render a tick or a delivered signal asked for; after the second
\* signal it is App's switch to the termination page
ViewRender ==
  /\ proctoringView.mounted /\ proctoringView.renderDue
  /\ proctoringView' =
       IF proctoringView.terminating
         THEN [EffectCleanup(proctoringView) EXCEPT
                 !.mounted = FALSE, !.ticking = FALSE, !.renderDue = FALSE]
         ELSE ParentRender(proctoringView, proctoringView.interviewState)
  /\ UNCHANGED pageVars

\* the page is left after the interview
ViewUnmount ==
  /\ proctoringView.mounted /\ proctoringView.interviewState = "evaluating"
  /\ proctoringView' =
       [EffectCleanup(proctoringView) EXCEPT !.mounted = FALSE, !.renderDue = FALSE]
  /\ UNCHANGED pageVars

\* a second passes: no timeout is due and no render is waiting
Second ==
  /\ proctoringView.interviewState # "upload"
  /\ ~proctoringView.renderDue
  /\ proctoringView.elapsed < MaxSeconds
  /\ proctoringView.warmup # Some(0) /\ proctoringView.check # Some(0)
  /\ 0 \notin proctoringView.orphanWarmups
  /\ proctoringView' =
       [proctoringView EXCEPT
          !.elapsed = @ + 1,
          !.warmup = IF @ = None THEN @ ELSE Some(@[1] - 1),
          !.check = IF @ = None THEN @ ELSE Some(@[1] - 1),
          !.orphanWarmups = {w - 1 : w \in @},
          !.renderDue = proctoringView.mounted /\ proctoringView.ticking]
  /\ UNCHANGED pageVars

\* scheduleNextCheck, called by the warm-up timeout of the current run
scheduleNextCheck(interval) ==
  /\ proctoringView.warmup = Some(0)
  /\ proctoringView' = [proctoringView EXCEPT !.warmup = None,
                                              !.check = Some(interval)]
  /\ UNCHANGED pageVars

\* scheduleNextCheck, called by the warm-up timeout of a run that was
\* cleaned up
OrphanScheduleNextCheck ==
  /\ 0 \in proctoringView.orphanWarmups
  /\ proctoringView' = [proctoringView EXCEPT !.orphanWarmups = @ \ {0},
                                              !.orphanCheck = TRUE]
  /\ UNCHANGED pageVars

\* the check timeout of the current run fires: onFaceOutOfFrame(), then
\* scheduleNextCheck(); the page warns on the first signal and terminates on
\* the second
FaceCheckFires(interval) ==
  /\ proctoringView.mounted /\ proctoringView.check = Some(0)
  /\ proctoringView' =
       IF FaceCheckCallback(TRUE) = "deliver"
         THEN [proctoringView EXCEPT
                 !.delivered = @ + 1,
                 !.terminating = (proctoringView.delivered >= 1),
                 !.renderDue = TRUE,
                 !.check = Some(interval)]
         ELSE [proctoringView EXCEPT !.check = None]
  /\ UNCHANGED pageVars

\* the check timeout of a run that was cleaned up fires, some time later
OrphanCheckFires ==
  /\ proctoringView.orphanCheck
  /\ proctoringView' =
       IF FaceCheckCallback(FALSE) = "deliver"
         THEN [proctoringView EXCEPT !.orphanCheck = FALSE,
                                     !.lateDelivery = TRUE]
         ELSE [proctoringView EXCEPT !.orphanCheck = FALSE]
  /\ UNCHANGED pageVars

ProctorNext ==
  \/ ViewEnterInProgress
  \/ ViewStall
  \/ ViewLeaveInProgress
  \/ ViewRender
  \/ ViewUnmount
  \/ Second
  \/ \E interval \in Intervals : scheduleNextCheck(interval)
  \/ OrphanScheduleNextCheck
  \/ \E interval \in Intervals : FaceCheckFires(interval)
  \/ OrphanCheckFires

ProctorSpec == Init /\ [][ProctorNext]_vars

\* C28: a run of the effect that was cleaned up (detection disabled, the
\* view rendered again or unmounted, the session terminated) delivers no
\* subject-absent callback and schedules no further check, whenever its
\* warm-up timeout was started.
C28_NothingAfterTeardown ==
  /\ ~proctoringView.lateDelivery
  /\ ~proctoringView.orphanCheck
  /\ (~proctoringView.mounted \/ ~proctoringView.enableFaceDetection)
       => proctoringView.check = None /\ proctoringView.warmup = None

\* C29: a session that has been InProgress, its countdown rendering the page
\* every second, for longer than the warm-up delay plus the longest interval
\* has been delivered a subject-absent event.
C29_SignalWithinBound ==
  (/\ proctoringView.mounted /\ proctoringView.interviewState = "inProgress"
   /\ proctoringView.ticking
   /\ proctoringView.elapsed > WarmupDelay + MaxInterval)
    => proctoringView.delivered >= 1


\* ---- the running transcript: rec.onresult on its own ----

\* the text of a result: one letter stands for a fragment; finalized
\* fragments read "a" or "b", a hypothesis still being revised reads "i"
FinalTexts == {"a", "b"}
FinalResult(t) == [isFinal |-> TRUE, transcript |-> <<t>>]
InterimResult == [isFinal |-> FALSE, transcript |-> <<"i">>]

\* the results an event reports as changed: newly finalized ones followed by
\* the current hypotheses (the list of a recognition session holds every
\* final result before the interim ones)
Tails ==
  {<<InterimResult>>}
    \cup {<<FinalResult(t)>> : t \in FinalTexts}
    \cup {<<FinalResult(t), InterimResult>> : t \in FinalTexts}
    \cup {<<FinalResult(t), FinalResult(u)>> : t \in FinalTexts, u \in FinalTexts}

Finals(results) == SelectSeq(results, LAMBDA r : r.isFinal)

RECURSIVE Flatten(_)
Flatten(ss) == IF ss = <<>> THEN <<>> ELSE Head(ss) \o Flatten(Tail(ss))

\* variant of FinalTranscript that takes every result, final or not
RECURSIVE AnyTranscript(_, _)
AnyTranscript(results, i) ==
  IF i > Len(results) THEN <<>>
  ELSE results[i].transcript \o AnyTranscript(results, i + 1)

\* the loop of rec.onresult: the transcripts of the final results from
\* resultIndex on (1-based here)
RECURSIVE FinalTranscript(_, _)
FinalTranscript(results, i) ==
  IF i > Len(results) THEN <<>>
  ELSE (IF results[i].isFinal THEN results[i].transcript ELSE <<>>)
         \o FinalTranscript(results, i + 1)

\* latestTranscript.current += finalTranscript + ' '
onresult(transcript, results, resultIndex) ==
  transcript \o FinalTranscript(results, resultIndex) \o <<" ">>

\* the engine reports a change of its result list and rec.onresult runs
SpeechResult(tail) ==
  /\ capture.heard < MaxHeard
  /\ LET kept == Finals(capture.results)
         results == kept \o tail
         resultIndex == Len(kept) + 1
     IN /\ latestTranscript' = onresult(latestTranscript, results, resultIndex)
        /\ capture' =
             [results |-> results,
              finals |-> capture.finals
                           \o [k \in 1..Len(Finals(tail)) |-> Finals(tail)[k].transcript],
              heard |-> capture.heard + 1]
  /\ UNCHANGED <<mcq, proctoringView, appVars, stateVars, isTerminatedRef,
                 pending, recState, recHandlers, events, countdown,
                 faceEnabled, genInFlight, evalInFlight, evalBatch,
                 sumInFlight, sumRequest, advanceLog, lastAdvance, faceSignals>>

\* the reset for a new question (latestTranscript.current = '') and the
\* recognition session of that question, which starts with an empty list
CaptureReset ==
  /\ capture.results # <<>>
  /\ latestTranscript' = <<>>
  /\ capture' = [capture EXCEPT !.results = <<>>, !.finals = <<>>]
  /\ UNCHANGED <<mcq, proctoringView, appVars, stateVars, isTerminatedRef,
                 pending, recState, recHandlers, events, countdown,
                 faceEnabled, genInFlight, evalInFlight, evalBatch,
                 sumInFlight, sumRequest, advanceLog, lastAdvance, faceSignals>>

\* the only question of a session has just entered Recording
CaptureInit ==
  /\ view = "resume-interview"
  /\ terminationMessage = ""
  /\ appPending = None
  /\ resumeFile = TRUE
  /\ error = "null"
  /\ questions = QuestionList(1)
  /\ currentQuestionIndex = 0
  /\ interviewState = "inProgress"
  /\ interviewPhase = "recording"
  /\ timer = RecordingSeconds
  /\ allAnswers = Fill(1)
  /\ isAdvancing = FALSE
  /\ recognitionError = "null"
  /\ faceDetectionWarnings = 0
  /\ interviewResults = <<>>
  /\ performanceSummary = Null
  /\ proctoringStatus = "ready"
  /\ latestTranscript = <<>>
  /\ isTerminatedRef = FALSE
  /\ pending = NoPending
  /\ recState = "active"
  /\ recHandlers = TRUE
  /\ events = 0
  /\ countdown = <<TickFor(Committed)>>
  /\ faceEnabled = TRUE
  /\ genInFlight = FALSE
  /\ evalInFlight = 0
  /\ evalBatch = NoBatch
  /\ sumInFlight = 0
  /\ sumRequest = None
  /\ advanceLog = <<>>
  /\ lastAdvance = NoAdvance
  /\ faceSignals = 0
  /\ mcq = McqStart
  /\ proctoringView = ViewStart
  /\ capture = CaptureStart

CaptureNext ==
  \/ \E tail \in Tails : SpeechResult(tail)
  \/ CaptureReset

CaptureSpec == CaptureInit /\ [][CaptureNext]_vars

\* the text of s without its blanks
Letters(s) == SelectSeq(s, LAMBDA c : c # " ")

IsPrefix(s, t) == Len(s) <= Len(t) /\ SubSeq(t, 1, Len(s)) = s

\* a step in which rec.onresult runs
ResultStep == capture'.heard = capture.heard + 1

C35_NoFragmentBeforeRecording ==
  (/\ Mounted
   /\ interviewState = "inProgress"
   /\ interviewPhase = "thinking"
   /\ pending.interviewPhase = None)
    => Letters(latestTranscript) = <<>>

\* ---- the termination message ----

\* C36: while the terminated view is shown a termination message that is not
\* empty is stored, and it stays the same for as long as that view is shown.
C36_TerminationMessageRetained ==
  /\ [](view = "terminated" => terminationMessage # "")
  /\ [][(view = "terminated" /\ view' = "terminated")
        => (terminationMessage' = terminationMessage)]_vars

\* the session was terminated after two subject-absent signals, the
\* termination page is shown with the message of handleFaceOutOfFrame, and
\* steps were taken since
C36_Witness ==
  /\ view = "terminated"
  /\ terminationMessage = TerminationText
  /\ faceSignals >= 2
  /\ ~Mounted
  /\ appPending = None

\* ---- responses that arrive late ----

\* the response of the generation, evaluation or summary request is handled
ResponseStep ==
  \/ genInFlight /\ ~genInFlight'
  \/ evalInFlight' < evalInFlight
  \/ sumInFlight' < sumInFlight

\* the phase in which a request now in flight was issued
IssuedIn ==
  IF genInFlight THEN "generating"
  ELSE IF evalInFlight > 0 THEN "evaluating"
  ELSE "summarizing"

\* C37: a response that arrives when the phase is no longer the one its
\* request was issued in changes neither the phase nor the stored questions,
\* results or summary, and queues no change of them; the phase of a session
\* whose page is there stays the issuing one while the request is in flight.
C37_LateResponseDiscarded ==
  /\ [][(ResponseStep /\ ~(Mounted /\ interviewState = IssuedIn))
        => UNCHANGED <<pending, stateVars, view>>]_vars
  /\ []((Mounted /\ (genInFlight \/ evalInFlight > 0 \/ sumInFlight > 0))
        => interviewState = IssuedIn)

\* the user left the page from the permission error screen while the
\* evaluation was in flight; its response has been handled since and the
\* phase and the results are those of before
C37_Witness ==
  /\ view = "dashboard"
  /\ interviewState = "evaluating"
  /\ evalInFlight = 0 /\ evalBatch = NoBatch
  /\ interviewResults = <<>>
  /\ pending = NoPending

\* ---- the order of the phases ----

\* the phase changes the code makes: every setInterviewState call with the
\* phase it is made in
PhaseMoves ==
  { <<"upload", "generating">>, <<"generating", "inProgress">>,
    <<"generating", "upload">>, <<"inProgress", "evaluating">>,
    <<"evaluating", "summarizing">>, <<"summarizing", "results">> }

\* C38: the phase changes only along Upload -> Generating -> InProgress ->
\* Evaluating -> Summarizing -> Results and Generating -> Upload; Summarizing
\* is not followed by Evaluating, nor Results by any other phase.
C38_PhaseOrder ==
  /\ [][(interviewState' # interviewState)
        => (<<interviewState, interviewState'>> \in PhaseMoves)]_vars
  /\ [][(interviewState = "results") => (interviewState' = "results")]_vars

\* the phase went all the way to Results (behind the permission error
\* screen) and steps were taken since
C38_Witness ==
  /\ interviewState = "results"
  /\ sumInFlight = 0
  /\ ~Mounted

\* ---- Advance and the sub-phases ----

\* C39: an Advance takes effect only while the sub-phase is Recording: no
\* answer is committed and no change of currentIndex or of the phase is
\* queued by a step taken in the Thinking time of a question (Recording
\* counts from the step that starts the engine and queues the sub-phase).
C39_AdvanceOnlyWhileRecording ==
  [][AdvanceStep => (\/ interviewPhase = "recording"
                     \/ pending.interviewPhase = Some("recording"))]_vars

\* ---- the range of the countdown ----

\* C40: timerValue is an integer from 0 to 10 while the sub-phase is
\* Thinking and from 0 to 30 while it is Recording, as rendered and with the
\* queued updates applied; a timeout fires only above 0 and the render of it
\* shows one second less.
C40_TimerRange ==
  /\ [](LET next == Applied(Committed, pending)
        IN \A c \in {Committed, next} :
             /\ c.timer \in Int
             /\ c.interviewPhase = "thinking" => c.timer \in 0..ThinkingSeconds
             /\ c.interviewPhase = "recording" => c.timer \in 0..RecordingSeconds)
  /\ [][TickStep => /\ timer > 0
                    /\ Applied(Committed', pending').timer = timer - 1]_vars

\* the countdown of Recording has run down to its last second
C40_Witness ==
  /\ Mounted /\ interviewState = "inProgress"
  /\ interviewPhase = "recording" /\ timer = 1
  /\ pending.timerDec = 1
====
